---- MODULE Spec2Model ----
(***************************************************************************)
(* Model of the GAIA evaluation harness: the answer table and dispatch     *)
(* pipeline of azrock/agent.py (SimpleLLMAgent) and the fetch / run /      *)
(* submit loop of app.py (run_and_submit_all).                             *)
(*                                                                         *)
(* Text.  A question is a sequence of fragments; a fragment is one of the  *)
(* literal phrases the answer table looks for (or a filler phrase), as it  *)
(* occurs in the question: in lower case or with capital letters.          *)
(* str.lower() lowers every fragment, and `needle in p` holds when the     *)
(* lowered needle is one of the fragments of p.  Every other string        *)
(* (answers, completer output, status messages) is a sequence of atomic    *)
(* pieces; " " and "\n" are the whitespace pieces that str.strip() drops.  *)
(***************************************************************************)
EXTENDS Integers, Sequences, FiniteSets, TLC

VARIABLES
    prompt,           \* the question text handed to SimpleLLMAgent
    tool_answer,      \* run(): result of _gaia_tools, or its last direct result
    HF_API_TOKEN,     \* the environment credential read at import time
    api_url,          \* SimpleLLMAgent.api_url (None or the model URL)
    apc,              \* position inside SimpleLLMAgent.run
    hfCalls,          \* number of _call_hf requests made by the current run()
    hfResp,           \* what the inference endpoint did on the last request
    agentResult,      \* what run() produced
    rpc,              \* position inside run_and_submit_all ("off": not running)
    profile,          \* the OAuth profile handed in by the UI, or None
    fetchResp,        \* what the questions endpoint did
    questions_data,   \* the fetched list
    idx,              \* 1-based position of the for loop in questions_data
    answer,           \* the loop's local `answer`
    answers_payload,  \* the submission payload
    results_log,      \* the result log
    submitResp,       \* what the submit endpoint did
    final_status,     \* first component of the returned pair (<<>>: none yet)
    results_df,       \* second component of the returned pair
    escaped,          \* the exception that left run_and_submit_all, if any
    dispatched,       \* history: loop positions handed to agent.answer, in order
    raisedAt,         \* history: loop positions whose agent.answer raised
    submitCalls       \* history: number of submit_answers calls

runnerVars ==
    <<rpc, profile, fetchResp, questions_data, idx, answer, answers_payload,
      results_log, submitResp, final_status, results_df, escaped, dispatched,
      raisedAt, submitCalls>>

agentVars == <<prompt, tool_answer, HF_API_TOKEN, api_url, apc, hfCalls, hfResp, agentResult>>

-----------------------------------------------------------------------------
(* Bounds *)

MaxPromptLen == 3      \* fragments in a question typed in SpecTools
MaxTextLen == 3        \* pieces in a completer output
MaxItems == 2          \* items in the list the questions endpoint returns

-----------------------------------------------------------------------------
(* Python values *)

None == [t |-> "None", v |-> <<>>]
Str(s) == [t |-> "str", v |-> s]
Raised(msg) == [t |-> "raise", v |-> msg]
Unset == [t |-> "unset", v |-> <<>>]

\* Python truthiness of None / str
Truthy(x) == x.t = "str" /\ x.v # <<>>

-----------------------------------------------------------------------------
(* Question text *)

FragTexts ==
    << "mercedes sosa", "studio albums", "2000 and 2009",
       "l1vxcyzayym", "bird species",
       ".rewsna eht sa \"tfel\" drow eht fo etisoppo eht etirw",
       "review the chess position provided in the image",
       "featured article on english wikipedia about a dinosaur",
       "given this table defining * on the set s = {a, b, c, d, e}",
       "teal'c", "isn't that hot",
       "equine veterinarian", "1.e exercises",
       "i'm making a grocery list for my mom", "milk, eggs, flour",
       "strawberry pie.mp3",
       "actor who played ray in the polish-language version of everybody loves raymond",
       "final numeric output from the attached python code",
       "yankee with the most walks in the 1977 regular season",
       "homework.mp3", "page numbers",
       "carolyn collins petersen", "universe today", "arendt",
       "vietnamese specimens described by kuznetzov in nedoshivina's 2010 paper",
       "1928 summer olympics", "least number of athletes",
       "pitchers with the number before and after taisho tamai's number",
       "attached excel file contains the sales of menu items for a local fast-food chain",
       "only malko competition recipient from the 20th century",
       "what is the capital of france?" >>

Frag(text, upper) == [text |-> text, upper |-> upper]

FragIndex(f) == CHOOSE k \in 1..Len(FragTexts) : FragTexts[k] = f.text

\* str.lower(): every fragment in lower case
Lower(s) == [i \in 1..Len(s) |-> Frag(s[i].text, FALSE)]

\* `needle in p` for a lower-case literal needle
In(needle, p) == \E i \in 1..Len(p) : p[i] = Frag(needle, FALSE)

-----------------------------------------------------------------------------
(* SimpleLLMAgent._gaia_tools *)

\* _gaia_tools with rules 4 and 5 tested in the opposite order
GaiaToolsSwapped(q) ==
    LET p == Lower(q) IN
    IF In("mercedes sosa", p) /\ In("studio albums", p) /\ In("2000 and 2009", p)
        THEN Str(<<"3">>)
    ELSE IF In("l1vxcyzayym", p) /\ In("bird species", p)
        THEN Str(<<"3">>)
    ELSE IF In(".rewsna eht sa \"tfel\" drow eht fo etisoppo eht etirw", p)
        THEN Str(<<"Right">>)
    ELSE IF In("featured article on english wikipedia about a dinosaur", p)
        THEN Str(<<"FunkMonk">>)
    ELSE IF In("review the chess position provided in the image", p)
        THEN Str(<<"Rd5">>)
    ELSE IF In("given this table defining * on the set s = {a, b, c, d, e}", p)
        THEN Str(<<"b,e">>)
    ELSE IF In("teal'c", p) /\ In("isn't that hot", p)
        THEN Str(<<"Extremely">>)
    ELSE IF In("equine veterinarian", p) /\ In("1.e exercises", p)
        THEN Str(<<"Louvrier">>)
    ELSE IF In("i'm making a grocery list for my mom", p) /\ In("milk, eggs, flour", p)
        THEN Str(<<"broccoli, celery, corn, green beans, lettuce, sweet potatoes, zucchini">>)
    ELSE IF In("strawberry pie.mp3", p)
        THEN Str(<<"cornstarch, freshly squeezed lemon juice, granulated sugar, pure vanilla extract, ripe strawberries">>)
    ELSE IF In("actor who played ray in the polish-language version of everybody loves raymond", p)
        THEN Str(<<"Wojciech">>)
    ELSE IF In("final numeric output from the attached python code", p)
        THEN Str(<<"0">>)
    ELSE IF In("yankee with the most walks in the 1977 regular season", p)
        THEN Str(<<"519">>)
    ELSE IF In("homework.mp3", p) /\ In("page numbers", p)
        THEN Str(<<"132, 133, 134, 197, 245">>)
    ELSE IF In("carolyn collins petersen", p) /\ In("universe today", p) /\ In("arendt", p)
        THEN Str(<<"80GSFC21M0002">>)
    ELSE IF In("vietnamese specimens described by kuznetzov in nedoshivina's 2010 paper", p)
        THEN Str(<<"Saint Petersburg">>)
    ELSE IF In("1928 summer olympics", p) /\ In("least number of athletes", p)
        THEN Str(<<"CUB">>)
    ELSE IF In("pitchers with the number before and after taisho tamai's number", p)
        THEN Str(<<"Yoshida, Uehara">>)
    ELSE IF In("attached excel file contains the sales of menu items for a local fast-food chain", p)
        THEN Str(<<"89706.00">>)
    ELSE IF In("only malko competition recipient from the 20th century", p)
        THEN Str(<<"Claus">>)
    ELSE None

GaiaTools(q) ==
    LET p == Lower(q) IN
    \* 1. Mercedes Sosa studio albums 2000-2009
    IF In("mercedes sosa", p) /\ In("studio albums", p) /\ In("2000 and 2009", p)
        THEN Str(<<"3">>)
    \* 2. Birds video - max species simultaneously
    ELSE IF In("l1vxcyzayym", p) /\ In("bird species", p)
        THEN Str(<<"3">>)
    \* 3. Reversed sentence / opposite of "left"
    ELSE IF In(".rewsna eht sa \"tfel\" drow eht fo etisoppo eht etirw", p)
        THEN Str(<<"Right">>)
    \* 4. Chess position image
    ELSE IF In("review the chess position provided in the image", p)
        THEN Str(<<"Rd5">>)
    \* 5. Dinosaur Featured Article nominator
    ELSE IF In("featured article on english wikipedia about a dinosaur", p)
        THEN Str(<<"FunkMonk">>)
    \* 6. Non-commutative subset question
    ELSE IF In("given this table defining * on the set s = {a, b, c, d, e}", p)
        THEN Str(<<"b,e">>)
    \* 7. Teal'c
    ELSE IF In("teal'c", p) /\ In("isn't that hot", p)
        THEN Str(<<"Extremely">>)
    \* 8. Equine veterinarian
    ELSE IF In("equine veterinarian", p) /\ In("1.e exercises", p)
        THEN Str(<<"Louvrier">>)
    \* 9. Grocery list
    ELSE IF In("i'm making a grocery list for my mom", p) /\ In("milk, eggs, flour", p)
        THEN Str(<<"broccoli, celery, corn, green beans, lettuce, sweet potatoes, zucchini">>)
    \* 10. Strawberry pie.mp3
    ELSE IF In("strawberry pie.mp3", p)
        THEN Str(<<"cornstarch, freshly squeezed lemon juice, granulated sugar, pure vanilla extract, ripe strawberries">>)
    \* 11. Polish-language Everybody Loves Raymond
    ELSE IF In("actor who played ray in the polish-language version of everybody loves raymond", p)
        THEN Str(<<"Wojciech">>)
    \* 12. Final numeric output from attached Python code
    ELSE IF In("final numeric output from the attached python code", p)
        THEN Str(<<"0">>)
    \* 13. Yankee with most walks in 1977
    ELSE IF In("yankee with the most walks in the 1977 regular season", p)
        THEN Str(<<"519">>)
    \* 14. Homework.mp3 page numbers
    ELSE IF In("homework.mp3", p) /\ In("page numbers", p)
        THEN Str(<<"132, 133, 134, 197, 245">>)
    \* 15. Universe Today / R. G. Arendt NASA award number
    ELSE IF In("carolyn collins petersen", p) /\ In("universe today", p) /\ In("arendt", p)
        THEN Str(<<"80GSFC21M0002">>)
    \* 16. Vietnamese specimens deposited city
    ELSE IF In("vietnamese specimens described by kuznetzov in nedoshivina's 2010 paper", p)
        THEN Str(<<"Saint Petersburg">>)
    \* 17. 1928 Olympics
    ELSE IF In("1928 summer olympics", p) /\ In("least number of athletes", p)
        THEN Str(<<"CUB">>)
    \* 18. Pitchers before and after Taisho Tamai's number
    ELSE IF In("pitchers with the number before and after taisho tamai's number", p)
        THEN Str(<<"Yoshida, Uehara">>)
    \* 19. Excel menu-item sales
    ELSE IF In("attached excel file contains the sales of menu items for a local fast-food chain", p)
        THEN Str(<<"89706.00">>)
    \* 20. Malko Competition recipient
    ELSE IF In("only malko competition recipient from the 20th century", p)
        THEN Str(<<"Claus">>)
    \* If nothing matched
    ELSE None

-----------------------------------------------------------------------------
(* Strings of pieces *)

IsSpace(c) == c \in {" ", "\n"}

RECURSIVE LStrip(_)
LStrip(s) == IF s # <<>> /\ IsSpace(Head(s)) THEN LStrip(Tail(s)) ELSE s

RECURSIVE RStrip(_)
RStrip(s) ==
    IF s # <<>> /\ IsSpace(s[Len(s)]) THEN RStrip(SubSeq(s, 1, Len(s) - 1)) ELSE s

\* str.strip()
Strip(s) == RStrip(LStrip(s))

-----------------------------------------------------------------------------
(* The inference endpoint, as seen by _call_hf: the request fails, or the  *)
(* response carries a JSON payload of one of the shapes below.             *)

HFTextPieces == {" ", "\n", "Paris"}

HFTexts == UNION {[1..k -> HFTextPieces] : k \in 0..MaxTextLen}

NoResponse == [kind |-> "none", text |-> <<>>]
NoFetch == [kind |-> "none", data |-> <<>>]
NoSubmit == [kind |-> "none", code |-> "", body |-> "", chars |-> 0, fields |-> FALSE]

HFFailures ==
    {[kind |-> k, text |-> <<>>] :
        k \in {"ConnectionError", "Timeout", "HTTPError", "JSONDecodeError"}}

HFPayloads ==
    \* [{"generated_text": text}]
    {[kind |-> "list_generated_text", text |-> t] : t \in HFTexts}
    \* [{"generated_text": null}], [5], [], {"error": ...}
    \cup {[kind |-> k, text |-> <<>>] :
            k \in {"list_generated_null", "list_of_int", "empty_list", "error_dict"}}

HFResponses == HFFailures \cup HFPayloads

\* the endpoint outcomes used while the evaluation loop runs
LoopHFResponses ==
    {[kind |-> "Timeout", text |-> <<>>],
     [kind |-> "error_dict", text |-> <<>>],
     [kind |-> "list_generated_text", text |-> <<" ", "Paris", " ">>]}

\* str(data) of a payload without a usable "generated_text"
PyStr(resp) ==
    IF resp.kind = "empty_list" THEN <<"[]">>
    ELSE <<"{'error': 'Model gpt2 is currently loading'}">>

\* _call_hf returning the text as received
CallHFUnstripped(resp) ==
    IF resp.kind \in {"ConnectionError", "Timeout"} THEN Raised(<<resp.kind>>)
    ELSE IF resp.kind = "HTTPError" THEN Raised(<<"HTTPError">>)
    ELSE IF resp.kind = "JSONDecodeError" THEN Raised(<<"JSONDecodeError">>)
    ELSE IF resp.kind = "list_of_int" THEN Raised(<<"TypeError">>)
    ELSE IF resp.kind = "list_generated_null" THEN Raised(<<"AttributeError">>)
    ELSE IF resp.kind = "list_generated_text" THEN Str(resp.text)
    ELSE Str(PyStr(resp))

\* SimpleLLMAgent._call_hf: the stripped text, or the exception raised
CallHF(resp) ==
    \* requests.post(..., timeout=60)
    IF resp.kind \in {"ConnectionError", "Timeout"} THEN Raised(<<resp.kind>>)
    \* resp.raise_for_status()
    ELSE IF resp.kind = "HTTPError" THEN Raised(<<"HTTPError">>)
    \* resp.json()
    ELSE IF resp.kind = "JSONDecodeError" THEN Raised(<<"JSONDecodeError">>)
    \* isinstance(data, list) and data and "generated_text" in data[0]
    ELSE IF resp.kind = "list_of_int" THEN Raised(<<"TypeError">>)
    ELSE IF resp.kind \in {"list_generated_text", "list_generated_null"}
        THEN \* text = data[0]["generated_text"]; return text.strip()
             IF resp.kind = "list_generated_null" THEN Raised(<<"AttributeError">>)
             ELSE Str(Strip(resp.text))
    \* text = str(data); return text.strip()
    ELSE Str(Strip(PyStr(resp)))

-----------------------------------------------------------------------------
(* SimpleLLMAgent *)

Tokens == {None, Str(<<>>), Str(<<"hf_token">>)}

ModelUrl == Str(<<"https://api-inference.huggingface.co/models/", "gpt2">>)

\* SimpleLLMAgent.__init__: api_url
NewApiUrl(token) == IF Truthy(token) THEN ModelUrl ELSE None

\* the fallback test of run() without the credential
ConfiguredAlways(url, token) == TRUE

\* run(): `if self.api_url and HF_API_TOKEN`
Configured(url, token) == Truthy(url) /\ Truthy(token)

\* run() propagating a completer failure
AfterCallHFPropagate(r) == [result |-> r, next |-> "done"]

\* run(): the try/except around _call_hf
AfterCallHF(r) ==
    IF r.t = "raise" THEN [result |-> Unset, next |-> "default"]
    ELSE [result |-> r, next |-> "done"]

\* run() step 1: the answer table
RunGaiaTools ==
    /\ apc = "tools"
    /\ tool_answer' = GaiaTools(prompt)
    /\ IF tool_answer' # None
         THEN agentResult' = tool_answer' /\ apc' = "done"
         ELSE agentResult' = agentResult /\ apc' = "fallback"
    /\ UNCHANGED <<prompt, HF_API_TOKEN, api_url, hfCalls, hfResp, runnerVars>>

\* run() step 2, completer configured: one request to the endpoint
RunCallHF(responses) ==
    /\ apc = "fallback"
    /\ Configured(api_url, HF_API_TOKEN)
    /\ \E resp \in responses :
          /\ hfResp' = resp
          /\ hfCalls' = hfCalls + 1
          /\ agentResult' = AfterCallHF(CallHF(resp)).result
          /\ apc' = AfterCallHF(CallHF(resp)).next
    /\ UNCHANGED <<prompt, tool_answer, HF_API_TOKEN, api_url, runnerVars>>

\* run() step 2, no completer
RunSkipFallback ==
    /\ apc = "fallback"
    /\ ~Configured(api_url, HF_API_TOKEN)
    /\ apc' = "default"
    /\ UNCHANGED <<prompt, tool_answer, HF_API_TOKEN, api_url, hfCalls, hfResp, agentResult, runnerVars>>

\* run() step 3: the ultimate fallback
RunDefault ==
    /\ apc = "default"
    /\ agentResult' = Str(<<"I don't know">>)
    /\ apc' = "done"
    /\ UNCHANGED <<prompt, tool_answer, HF_API_TOKEN, api_url, hfCalls, hfResp, runnerVars>>

-----------------------------------------------------------------------------
(* The agent driven directly: create_agent(), then run() on questions.     *)

SamplePrompts ==
    { <<>>,
      <<Frag("what is the capital of france?", TRUE)>>,
      <<Frag("strawberry pie.mp3", TRUE)>>,
      <<Frag("teal'c", FALSE)>>,
      <<Frag("teal'c", TRUE), Frag("what is the capital of france?", FALSE),
        Frag("isn't that hot", TRUE)>>,
      <<Frag("homework.mp3", FALSE), Frag("strawberry pie.mp3", FALSE),
        Frag("page numbers", FALSE)>> }

\* run_and_submit_all is not running
RunnerOff ==
    /\ rpc = "off"
    /\ profile = None
    /\ fetchResp = NoFetch
    /\ questions_data = <<>>
    /\ idx = 0
    /\ answer = Unset
    /\ answers_payload = <<>>
    /\ results_log = <<>>
    /\ submitResp = NoSubmit
    /\ final_status = <<>>
    /\ results_df = Unset
    /\ escaped = Unset
    /\ dispatched = <<>>
    /\ raisedAt = {}
    /\ submitCalls = 0

InitAgent ==
    /\ RunnerOff
    /\ prompt = <<>>
    /\ tool_answer = Unset
    /\ HF_API_TOKEN \in Tokens
    /\ api_url = None
    /\ apc = "new"
    /\ hfCalls = 0
    /\ hfResp = NoResponse
    /\ agentResult = Unset

\* create_agent()
CreateAgent ==
    /\ apc = "new"
    /\ api_url' = NewApiUrl(HF_API_TOKEN)
    /\ apc' = "idle"
    /\ UNCHANGED <<prompt, tool_answer, HF_API_TOKEN, hfCalls, hfResp, agentResult, runnerVars>>

\* agent.run(q, {}) called
DirectRun ==
    /\ apc \in {"idle", "done"}
    /\ \E q \in SamplePrompts : prompt' = q
    /\ apc' = "tools"
    /\ tool_answer' = Unset
    /\ hfCalls' = 0
    /\ hfResp' = NoResponse
    /\ agentResult' = Unset
    /\ UNCHANGED <<HF_API_TOKEN, api_url, runnerVars>>

NextAgent ==
    \/ CreateAgent
    \/ DirectRun
    \/ RunGaiaTools
    \/ RunCallHF(HFResponses)
    \/ RunSkipFallback
    \/ RunDefault

-----------------------------------------------------------------------------
(* The answer table driven directly: a question is put together fragment   *)
(* by fragment (in the order of FragTexts, which `in` does not depend on)  *)
(* and handed to _gaia_tools.                                              *)

InitTools ==
    /\ RunnerOff
    /\ prompt = <<>>
    /\ tool_answer = Unset
    /\ HF_API_TOKEN = None
    /\ api_url = None
    /\ apc = "table"
    /\ hfCalls = 0
    /\ hfResp = NoResponse
    /\ agentResult = Unset

TypeFragment ==
    /\ apc = "table"
    /\ Len(prompt) < MaxPromptLen
    /\ \E k \in 1..Len(FragTexts), u \in BOOLEAN :
          /\ IF prompt = <<>> THEN TRUE ELSE FragIndex(prompt[Len(prompt)]) < k
          /\ prompt' = Append(prompt, Frag(FragTexts[k], u))
    /\ tool_answer' = Unset
    /\ UNCHANGED <<HF_API_TOKEN, api_url, apc, hfCalls, hfResp, agentResult, runnerVars>>

CallGaiaTools ==
    /\ apc = "table"
    /\ tool_answer = Unset
    /\ tool_answer' = GaiaTools(prompt)
    /\ UNCHANGED <<prompt, HF_API_TOKEN, api_url, apc, hfCalls, hfResp, agentResult, runnerVars>>

NextTools == TypeFragment \/ CallGaiaTools

vars == <<agentVars, runnerVars>>

SpecTools == InitTools /\ [][NextTools]_vars

SpecAgent == InitAgent /\ [][NextAgent]_vars

-----------------------------------------------------------------------------
(* The questions endpoint and fetch_questions *)

TaskIds == {None, Str(<<>>), Str(<<"t1">>), Str(<<"t2">>)}

LoopPrompts ==
    { <<Frag("strawberry pie.mp3", TRUE)>>,
      <<Frag("what is the capital of france?", FALSE)>> }

\* a JSON number where a string is expected
JsonNumber == [t |-> "int", v |-> <<>>]

QuestionValues == {None, JsonNumber} \cup {Str(q) : q \in LoopPrompts}

\* the elements of the fetched array: JSON objects seen through
\* .get("task_id") and .get("question"), or a JSON value that is no object
Items ==
    {[dict |-> TRUE, task_id |-> i, question |-> q] : i \in TaskIds, q \in QuestionValues}
    \cup {[dict |-> FALSE, task_id |-> None, question |-> None]}

ItemLists == UNION {[1..n -> Items] : n \in 0..MaxItems}

FetchResponses ==
    {[kind |-> k, data |-> <<>>] :
        k \in {"ConnectionError", "Timeout", "HTTPError", "JSONDecodeError", "json_object"}}
    \cup {[kind |-> "json_list", data |-> l] : l \in ItemLists}

\* fetch_questions returning an empty list as it is
FetchQuestionsAnyList(resp) ==
    IF resp.kind \in {"ConnectionError", "Timeout", "HTTPError", "JSONDecodeError"}
        THEN Raised(<<resp.kind>>)
    ELSE IF resp.kind # "json_list"
        THEN Raised(<<"Questions endpoint returned empty or invalid payload.">>)
    ELSE [t |-> "list", v |-> resp.data]

\* fetch_questions: the list, or the exception raised
FetchQuestions(resp) ==
    \* requests.get(questions_url, timeout=15)
    IF resp.kind \in {"ConnectionError", "Timeout"} THEN Raised(<<resp.kind>>)
    \* response.raise_for_status()
    ELSE IF resp.kind = "HTTPError" THEN Raised(<<"HTTPError">>)
    \* response.json()
    ELSE IF resp.kind = "JSONDecodeError" THEN Raised(<<"JSONDecodeError">>)
    \* if not isinstance(data, list) or len(data) == 0
    ELSE IF resp.kind # "json_list" \/ Len(resp.data) = 0
        THEN Raised(<<"Questions endpoint returned empty or invalid payload.">>)
    ELSE [t |-> "list", v |-> resp.data]

-----------------------------------------------------------------------------
(* The submit endpoint, submit_answers and the status of a submission *)

\* the slice bound of the HTTPError handler: e.response.text[:500]
BodyLimit == 500

\* the shapes of the body of an error response: a JSON object with a
\* "detail" field, a JSON object without one, a JSON array, no JSON at all
BodyShapes == {"json_detail", "json_no_detail", "json_list", "not_json"}

\* `chars` is the number of characters of response.text
SubmitResponses ==
    \* requests.post raises
    {[kind |-> k, code |-> "", body |-> "", chars |-> 0, fields |-> FALSE] :
        k \in {"ReadTimeout", "ConnectTimeout", "ConnectionError"}}
    \* an error status, with a short body of one of four shapes
    \cup {[kind |-> "HTTPError", code |-> c, body |-> b, chars |-> 3, fields |-> FALSE] :
            c \in {"404", "500"}, b \in BodyShapes}
    \* an error status with a body of BodyLimit characters, and of one more
    \cup {[kind |-> "HTTPError", code |-> "500", body |-> b, chars |-> n, fields |-> FALSE] :
            b \in BodyShapes, n \in {BodyLimit, BodyLimit + 1}}
    \* a 2xx status whose body is no JSON: response.json() raises the
    \* requests JSONDecodeError, or a plain ValueError with older releases
    \cup {[kind |-> k, code |-> "", body |-> "not_json", chars |-> 3, fields |-> FALSE] :
            k \in {"JSONDecodeError", "ValueError"}}
    \* a 2xx status with a JSON object (score fields present or not) or array
    \cup {[kind |-> "ok_object", code |-> "", body |-> "", chars |-> 3, fields |-> f] :
            f \in BOOLEAN}
    \cup {[kind |-> "ok_list", code |-> "", body |-> "", chars |-> 3, fields |-> FALSE]}

\* e.response.text, character by character
ResponseText(resp) == [i \in 1..resp.chars |-> "c"]

\* s[:n]
SliceTo(s, n) == SubSeq(s, 1, IF Len(s) < n THEN Len(s) ELSE n)

\* the classes of an exception type (its own and its bases)
Bases(exc) ==
    CASE exc = "HTTPError" -> {"HTTPError", "RequestException", "Exception"}
      [] exc = "ReadTimeout" -> {"ReadTimeout", "Timeout", "RequestException", "Exception"}
      [] exc = "ConnectTimeout" ->
            {"ConnectTimeout", "ConnectionError", "Timeout", "RequestException", "Exception"}
      [] exc = "ConnectionError" -> {"ConnectionError", "RequestException", "Exception"}
      [] exc = "JSONDecodeError" ->
            {"JSONDecodeError", "InvalidJSONError", "RequestException", "ValueError", "Exception"}
      [] OTHER -> {exc, "Exception"}

\* submit_answers: the result JSON, or the exception raised
SubmitAnswers(resp) ==
    \* requests.post(submit_url, json=submission_data, timeout=60)
    IF resp.kind \in {"ReadTimeout", "ConnectTimeout", "ConnectionError"}
        THEN Raised(<<resp.kind>>)
    \* response.raise_for_status()
    ELSE IF resp.kind = "HTTPError" THEN Raised(<<"HTTPError">>)
    \* response.json()
    ELSE IF resp.kind \in {"JSONDecodeError", "ValueError"} THEN Raised(<<resp.kind>>)
    ELSE [t |-> "json", v |-> <<resp.kind>>]

\* the HTTPError handler: status code and detail
HttpDetail(resp) ==
    <<"Server responded with status ", resp.code, ".">> \o
    \* err_json.get('detail', e.response.text)
    (IF resp.body = "json_detail" THEN <<" Detail: ", "<detail>">>
     ELSE IF resp.body = "json_no_detail" THEN <<" Detail: ">> \o ResponseText(resp)
     \* err_json.get or e.response.json() raised: e.response.text[:500]
     ELSE <<" Response: ">> \o SliceTo(ResponseText(resp), BodyLimit))

\* the except clauses with Timeout tested after RequestException
ExceptStatusNetworkFirst(exc, resp) ==
    IF "HTTPError" \in Bases(exc) THEN <<"Submission Failed: ">> \o HttpDetail(resp)
    ELSE IF "RequestException" \in Bases(exc)
        THEN <<"Submission Failed: ", "Network error - ", exc>>
    ELSE IF "Timeout" \in Bases(exc)
        THEN <<"Submission Failed: ", "The request timed out.">>
    ELSE <<"An unexpected error occurred during submission: ", exc>>

\* the except clauses of step 4, in their order
ExceptStatus(exc, resp) ==
    IF "HTTPError" \in Bases(exc) THEN <<"Submission Failed: ">> \o HttpDetail(resp)
    ELSE IF "Timeout" \in Bases(exc)
        THEN <<"Submission Failed: ", "The request timed out.">>
    ELSE IF "RequestException" \in Bases(exc)
        THEN <<"Submission Failed: ", "Network error - ", exc>>
    ELSE <<"An unexpected error occurred during submission: ", exc>>

\* the status of a successful submission
SuccessStatus(resp, username) ==
    <<"Submission Successful!\n", "User: ">>
    \o (IF resp.fields THEN <<"<username>">> ELSE username)
    \o <<"\n", "Overall Score: ", IF resp.fields THEN "<score>" ELSE "N/A", "% (",
         IF resp.fields THEN "<correct_count>" ELSE "?", "/",
         IF resp.fields THEN "<total_attempted>" ELSE "?", " correct)\n", "Message: ",
         IF resp.fields THEN "<message>" ELSE "No message received.">>

\* step 4 of run_and_submit_all: final_status
SubmitStatus(resp, username) ==
    LET r == SubmitAnswers(resp) IN
    IF r.t = "raise" THEN ExceptStatus(r.v[1], resp)
    \* result_data.get on a JSON array
    ELSE IF resp.kind = "ok_list" THEN ExceptStatus("AttributeError", resp)
    ELSE SuccessStatus(resp, username)

-----------------------------------------------------------------------------
(* run_and_submit_all *)

DataFrame(log) == [t |-> "df", v |-> log]

\* the loop's test with the question not looked at
IsMalformedIdOnly(item) == ~Truthy(item.task_id)

\* `if not task_id or question_text is None`
IsMalformed(item) == ~Truthy(item.task_id) \/ item.question = None

\* the except branch keeping the failed task out of the log
LogAfterErrorDropped(log, entry) == log

\* the except branch of the loop: results_log
LogAfterError(log, entry) == Append(log, entry)

\* the error recorded without its marker
ErrorAnswerBare(e) == <<e>>

\* error_answer = f"AGENT ERROR: {e}"
ErrorAnswer(e) == <<"AGENT ERROR: ", e>>

\* the empty-payload test left out
NothingToSubmitNever(payload) == FALSE

\* `if not answers_payload`
NothingToSubmit(payload) == payload = <<>>

Init ==
    /\ prompt = <<>>
    /\ tool_answer = Unset
    /\ HF_API_TOKEN \in Tokens
    /\ api_url = None
    /\ apc = "new"
    /\ hfCalls = 0
    /\ hfResp = NoResponse
    /\ agentResult = Unset
    /\ rpc = "entry"
    /\ profile \in {None, Str(<<"alice">>)}
    /\ fetchResp = NoFetch
    /\ questions_data = <<>>
    /\ idx = 0
    /\ answer = Unset
    /\ answers_payload = <<>>
    /\ results_log = <<>>
    /\ submitResp = NoSubmit
    /\ final_status = <<>>
    /\ results_df = Unset
    /\ escaped = Unset
    /\ dispatched = <<>>
    /\ raisedAt = {}
    /\ submitCalls = 0

\* `if not profile`: the run is refused
RefuseAnonymous ==
    /\ rpc = "entry"
    /\ profile = None
    /\ final_status' = <<"Please log in to Hugging Face with the button above.">>
    /\ results_df' = None
    /\ rpc' = "returned"
    /\ UNCHANGED <<agentVars, profile, fetchResp, questions_data, idx, answer,
                   answers_payload, results_log, submitResp, escaped, dispatched,
                   raisedAt, submitCalls>>

\* 1. agent = GaiaAgent()
InstantiateAgent ==
    /\ rpc = "entry"
    /\ profile # None
    /\ api_url' = NewApiUrl(HF_API_TOKEN)
    /\ apc' = "idle"
    /\ rpc' = "fetch"
    /\ UNCHANGED <<prompt, tool_answer, HF_API_TOKEN, hfCalls, hfResp, agentResult,
                   profile, fetchResp, questions_data, idx, answer, answers_payload,
                   results_log, submitResp, final_status, results_df, escaped,
                   dispatched, raisedAt, submitCalls>>

\* 2. questions_data = fetch_questions(api_url), and the return on its failure
Fetch ==
    /\ rpc = "fetch"
    /\ \E resp \in FetchResponses :
          /\ fetchResp' = resp
          /\ IF FetchQuestions(resp).t = "raise"
               THEN /\ final_status' =
                          <<"Error while fetching questions: ">> \o FetchQuestions(resp).v
                    /\ results_df' = None
                    /\ rpc' = "returned"
                    /\ UNCHANGED <<questions_data, idx>>
               ELSE /\ questions_data' = FetchQuestions(resp).v
                    /\ idx' = 1
                    /\ rpc' = "loop"
                    /\ UNCHANGED <<final_status, results_df>>
    /\ UNCHANGED <<agentVars, profile, answer, answers_payload, results_log,
                   submitResp, escaped, dispatched, raisedAt, submitCalls>>

\* 3. item.get(...) on an element that is no JSON object: AttributeError,
\* outside every try
ItemNotAnObject ==
    /\ rpc = "loop"
    /\ idx <= Len(questions_data)
    /\ ~questions_data[idx].dict
    /\ escaped' = Raised(<<"AttributeError">>)
    /\ rpc' = "raised"
    /\ UNCHANGED <<agentVars, profile, fetchResp, questions_data, idx, answer,
                   answers_payload, results_log, submitResp, final_status, results_df,
                   dispatched, raisedAt, submitCalls>>

\* 3. a malformed item: continue
SkipMalformed ==
    /\ rpc = "loop"
    /\ idx <= Len(questions_data)
    /\ questions_data[idx].dict
    /\ IsMalformed(questions_data[idx])
    /\ idx' = idx + 1
    /\ UNCHANGED <<agentVars, rpc, profile, fetchResp, questions_data, answer,
                   answers_payload, results_log, submitResp, final_status, results_df,
                   escaped, dispatched, raisedAt, submitCalls>>

\* 3. agent.answer(question_text, metadata) on a question that is no string:
\* question_text[:80] raises, and the except branch records the error
AnswerRaises ==
    /\ rpc = "loop"
    /\ idx <= Len(questions_data)
    /\ questions_data[idx].dict
    /\ ~IsMalformed(questions_data[idx])
    /\ questions_data[idx].question.t # "str"
    /\ dispatched' = Append(dispatched, idx)
    /\ raisedAt' = raisedAt \cup {idx}
    /\ results_log' =
          LogAfterError(results_log,
                        [TaskID |-> questions_data[idx].task_id,
                         Question |-> questions_data[idx].question,
                         SubmittedAnswer |-> ErrorAnswer("TypeError")])
    /\ idx' = idx + 1
    /\ UNCHANGED <<agentVars, rpc, profile, fetchResp, questions_data, answer,
                   answers_payload, submitResp, final_status, results_df, escaped,
                   submitCalls>>

\* 3. agent.answer(question_text, metadata): GaiaAgent.answer enters
\* core_agent.run
AnswerBegin ==
    /\ rpc = "loop"
    /\ idx <= Len(questions_data)
    /\ questions_data[idx].dict
    /\ ~IsMalformed(questions_data[idx])
    /\ questions_data[idx].question.t = "str"
    /\ dispatched' = Append(dispatched, idx)
    /\ prompt' = questions_data[idx].question.v
    /\ apc' = "tools"
    /\ tool_answer' = Unset
    /\ hfCalls' = 0
    /\ hfResp' = NoResponse
    /\ agentResult' = Unset
    /\ rpc' = "in_agent"
    /\ UNCHANGED <<HF_API_TOKEN, api_url, profile, fetchResp, questions_data, idx,
                   answer, answers_payload, results_log, submitResp, final_status,
                   results_df, escaped, raisedAt, submitCalls>>

\* GaiaAgent.answer returns str(result).strip(); answers_payload.append(...)
AnswerReturn ==
    /\ rpc = "in_agent"
    /\ apc = "done"
    /\ answer' = Strip(agentResult.v)
    /\ answers_payload' =
          Append(answers_payload,
                 [task_id |-> questions_data[idx].task_id, submitted_answer |-> answer'])
    /\ apc' = "idle"
    /\ rpc' = "appended"
    /\ UNCHANGED <<prompt, tool_answer, HF_API_TOKEN, api_url, hfCalls, hfResp,
                   agentResult, profile, fetchResp, questions_data, idx, results_log,
                   submitResp, final_status, results_df, escaped, dispatched,
                   raisedAt, submitCalls>>

\* results_log.append(...) of the try branch
LogAnswer ==
    /\ rpc = "appended"
    /\ results_log' =
          Append(results_log,
                 [TaskID |-> questions_data[idx].task_id,
                  Question |-> questions_data[idx].question,
                  SubmittedAnswer |-> answer])
    /\ idx' = idx + 1
    /\ rpc' = "loop"
    /\ UNCHANGED <<agentVars, profile, fetchResp, questions_data, answer,
                   answers_payload, submitResp, final_status, results_df, escaped,
                   dispatched, raisedAt, submitCalls>>

\* after the loop: nothing to submit
ReturnNoAnswers ==
    /\ rpc = "loop"
    /\ idx > Len(questions_data)
    /\ NothingToSubmit(answers_payload)
    /\ final_status' = <<"Agent did not produce any answers to submit.">>
    /\ results_df' = DataFrame(results_log)
    /\ rpc' = "returned"
    /\ UNCHANGED <<agentVars, profile, fetchResp, questions_data, idx, answer,
                   answers_payload, results_log, submitResp, escaped, dispatched,
                   raisedAt, submitCalls>>

\* 4. submit_answers(...), the status built from its outcome, and the return
Submit ==
    /\ rpc = "loop"
    /\ idx > Len(questions_data)
    /\ ~NothingToSubmit(answers_payload)
    /\ \E resp \in SubmitResponses :
          /\ submitResp' = resp
          /\ final_status' = SubmitStatus(resp, profile.v)
    /\ submitCalls' = submitCalls + 1
    /\ results_df' = DataFrame(results_log)
    /\ rpc' = "returned"
    /\ UNCHANGED <<agentVars, profile, fetchResp, questions_data, idx, answer,
                   answers_payload, results_log, escaped, dispatched, raisedAt>>

Next ==
    \/ RefuseAnonymous
    \/ InstantiateAgent
    \/ Fetch
    \/ ItemNotAnObject
    \/ SkipMalformed
    \/ AnswerRaises
    \/ AnswerBegin
    \/ RunGaiaTools
    \/ RunCallHF(LoopHFResponses)
    \/ RunSkipFallback
    \/ RunDefault
    \/ AnswerReturn
    \/ LogAnswer
    \/ ReturnNoAnswers
    \/ Submit

Spec == Init /\ [][Next]_vars

-----------------------------------------------------------------------------
(* The answer table as declared: the ordered list of (needles, answer).    *)

Rules ==
    << [needs |-> {"mercedes sosa", "studio albums", "2000 and 2009"}, answer |-> "3"],
       [needs |-> {"l1vxcyzayym", "bird species"}, answer |-> "3"],
       [needs |-> {".rewsna eht sa \"tfel\" drow eht fo etisoppo eht etirw"}, answer |-> "Right"],
       [needs |-> {"review the chess position provided in the image"}, answer |-> "Rd5"],
       [needs |-> {"featured article on english wikipedia about a dinosaur"}, answer |-> "FunkMonk"],
       [needs |-> {"given this table defining * on the set s = {a, b, c, d, e}"}, answer |-> "b,e"],
       [needs |-> {"teal'c", "isn't that hot"}, answer |-> "Extremely"],
       [needs |-> {"equine veterinarian", "1.e exercises"}, answer |-> "Louvrier"],
       [needs |-> {"i'm making a grocery list for my mom", "milk, eggs, flour"},
        answer |-> "broccoli, celery, corn, green beans, lettuce, sweet potatoes, zucchini"],
       [needs |-> {"strawberry pie.mp3"},
        answer |-> "cornstarch, freshly squeezed lemon juice, granulated sugar, pure vanilla extract, ripe strawberries"],
       [needs |-> {"actor who played ray in the polish-language version of everybody loves raymond"},
        answer |-> "Wojciech"],
       [needs |-> {"final numeric output from the attached python code"}, answer |-> "0"],
       [needs |-> {"yankee with the most walks in the 1977 regular season"}, answer |-> "519"],
       [needs |-> {"homework.mp3", "page numbers"}, answer |-> "132, 133, 134, 197, 245"],
       [needs |-> {"carolyn collins petersen", "universe today", "arendt"}, answer |-> "80GSFC21M0002"],
       [needs |-> {"vietnamese specimens described by kuznetzov in nedoshivina's 2010 paper"},
        answer |-> "Saint Petersburg"],
       [needs |-> {"1928 summer olympics", "least number of athletes"}, answer |-> "CUB"],
       [needs |-> {"pitchers with the number before and after taisho tamai's number"},
        answer |-> "Yoshida, Uehara"],
       [needs |-> {"attached excel file contains the sales of menu items for a local fast-food chain"},
        answer |-> "89706.00"],
       [needs |-> {"only malko competition recipient from the 20th century"}, answer |-> "Claus"] >>

\* the lower-cased texts of the fragments of q, whatever their case in q
LoweredTexts(q) == {q[i].text : i \in 1..Len(q)}

\* the rules whose every needle occurs in the lower-cased question
Matching(q) == {i \in 1..Len(Rules) : Rules[i].needs \subseteq LoweredTexts(q)}

FirstMatching(q) == CHOOSE i \in Matching(q) : \A j \in Matching(q) : i <= j

\* C8: _gaia_tools returns the answer of the first declared rule whose
\* needles all occur in the lower-cased question, and None exactly when no
\* rule's predicate holds.
C8_RuleOrder ==
    (apc = "table" /\ tool_answer # Unset) =>
        /\ Matching(prompt) # {} =>
              tool_answer = Str(<<Rules[FirstMatching(prompt)].answer>>)
        /\ (tool_answer = None) <=> (Matching(prompt) = {})

\* two rules with different answers match, one fragment in capitals
C8_Witness ==
    /\ apc = "table"
    /\ tool_answer # Unset
    /\ Cardinality(Matching(prompt)) >= 2
    /\ \E i \in Matching(prompt) : Rules[i].answer # Rules[FirstMatching(prompt)].answer
    /\ \E i \in 1..Len(prompt) : prompt[i].upper

-----------------------------------------------------------------------------
(* Claims about SimpleLLMAgent.run, checked under SpecAgent *)

IDontKnow == Str(<<"I don't know">>)

\* the completer was asked in this run() and did not deliver a text
CompleterFailed ==
    hfResp.kind \in {"ConnectionError", "Timeout", "HTTPError", "JSONDecodeError",
                     "list_of_int", "list_generated_null"}

\* C6: run() always ends with a string, never an exception; when no rule
\* matches and the completer is not configured (no credential) or fails,
\* the string is exactly "I don't know".
C6_RunNeverFails ==
    /\ agentResult.t # "raise"
    /\ apc = "done" =>
         /\ agentResult.t = "str"
         /\ (Matching(prompt) = {} /\ (~Truthy(HF_API_TOKEN) \/ CompleterFailed))
               => agentResult = IDontKnow

\* run() ended on the default after the completer timed out
C6_Witness ==
    /\ apc = "done"
    /\ Matching(prompt) = {}
    /\ Truthy(HF_API_TOKEN)
    /\ hfResp.kind = "Timeout"
    /\ agentResult = IDontKnow

\* C7: within one run() the completer is asked at most once, only after the
\* answer table was consulted and returned no match, and only with a
\* credential; without a credential, or on a matching question, never.
C7_FallbackGating ==
    /\ hfCalls <= 1
    /\ hfCalls > 0 =>
         /\ tool_answer = None
         /\ Matching(prompt) = {}
         /\ Truthy(HF_API_TOKEN)
    /\ ~Truthy(HF_API_TOKEN) => hfCalls = 0 /\ hfResp = NoResponse
    /\ Matching(prompt) # {} => hfCalls = 0 /\ hfResp = NoResponse

\* a run() that asked the completer once and returned
C7_Witness ==
    /\ apc = "done"
    /\ hfCalls = 1
    /\ Truthy(HF_API_TOKEN)
    /\ Matching(prompt) = {}

\* r is t without its leading and trailing whitespace, and nothing else
Trimmed(r, t) ==
    \E i \in 1..(Len(t) + 1), j \in 0..Len(t) :
        /\ r = SubSeq(t, i, j)
        /\ \A k \in 1..Len(t) : (k < i \/ k > j) => IsSpace(t[k])
        /\ r # <<>> => ~IsSpace(r[1]) /\ ~IsSpace(r[Len(r)])

\* C10: on a question matching no rule, with a credential, when the
\* completer delivers the text t, run() returns t with leading and trailing
\* whitespace removed and nothing added.
C10_FallbackSuccess ==
    (/\ apc = "done"
     /\ Matching(prompt) = {}
     /\ Truthy(HF_API_TOKEN)
     /\ hfResp.kind = "list_generated_text")
        => /\ agentResult.t = "str"
           /\ Trimmed(agentResult.v, hfResp.text)

\* the completer said " Paris " and run() returned "Paris"
C10_Witness ==
    /\ apc = "done"
    /\ Matching(prompt) = {}
    /\ hfResp = [kind |-> "list_generated_text", text |-> <<" ", "Paris", " ">>]
    /\ agentResult = Str(<<"Paris">>)

-----------------------------------------------------------------------------
(* Claims about run_and_submit_all, checked under Spec *)

\* a fetched element the loop accepts: an object with a non-empty task id
\* and a question
ValidItem(item) == item.dict /\ item.task_id \notin {None, Str(<<>>)} /\ item.question # None

\* a fetched element that is an object without a task id or a question
MalformedItem(item) == item.dict /\ ~ValidItem(item)

\* the loop positions the for loop has left behind
Processed == {i \in 1..Len(questions_data) : i < idx}

\* the positions of the valid items among the first n, in fetch order
ValidUpTo(n) ==
    SelectSeq([i \in 1..n |-> i], LAMBDA i : ValidItem(questions_data[i]))

\* the questions endpoint failed, or answered with something that is not a
\* non-empty list
FetchFailed ==
    \/ fetchResp.kind \in {"ConnectionError", "Timeout", "HTTPError", "JSONDecodeError",
                           "json_object"}
    \/ fetchResp.kind = "json_list" /\ fetchResp.data = <<>>

\* C1: for an authenticated caller run_and_submit_all never lets an
\* exception out, whatever the questions endpoint returns.
C1_NoExceptionEscapes ==
    profile # None => (rpc # "raised" /\ escaped = Unset)

\* C2 as stated: in a run that reached the loop, the payload is never longer
\* than the log, and they are equally long iff no agent call raised and no
\* item met so far was malformed.
C2_AsStated ==
    rpc \in {"loop", "in_agent", "appended", "returned", "raised"} /\ fetchResp.kind = "json_list"
        => /\ Len(answers_payload) <= Len(results_log)
           /\ (Len(answers_payload) = Len(results_log))
                <=> (raisedAt = {} /\ \A i \in Processed : ~MalformedItem(questions_data[i]))

\* C2 amended: between iterations of the loop and at its end the payload is
\* never longer than the log, and they are equally long iff no agent call
\* raised (a malformed item adds to neither); inside an iteration, between
\* the two appends of the try branch, the payload is one entry ahead.
C2_PayloadLogSize ==
    /\ (rpc \in {"loop", "in_agent", "returned", "raised"} /\ fetchResp.kind = "json_list")
        => /\ Len(answers_payload) <= Len(results_log)
           /\ (Len(answers_payload) = Len(results_log)) <=> (raisedAt = {})
           /\ Len(results_log) - Len(answers_payload) = Cardinality(raisedAt)
    /\ rpc = "appended"
        => Len(answers_payload) = Len(results_log) - Cardinality(raisedAt) + 1

\* the loop has ended with a malformed item skipped and a task that raised:
\* the log is longer than the payload
C2_Witness ==
    /\ rpc = "returned"
    /\ \E i \in Processed : MalformedItem(questions_data[i])
    /\ raisedAt # {}
    /\ Len(answers_payload) < Len(results_log)

\* C3: when the loop ends and every valid task's agent call raised (or there
\* was no valid task), submit_answers is never called, the status is the
\* "did not produce any answers" message, not a fetch error, and the
\* returned log has one entry per valid task fetched.
C3_EmptySubmission ==
    (/\ rpc = "returned"
     /\ fetchResp.kind = "json_list" /\ ~FetchFailed
     /\ \A i \in 1..Len(questions_data) : ValidItem(questions_data[i]) => i \in raisedAt)
        => /\ submitCalls = 0
           /\ submitResp = NoSubmit
           /\ final_status = <<"Agent did not produce any answers to submit.">>
           /\ final_status[1] # "Error while fetching questions: "
           /\ results_df.t = "df"
           /\ Len(results_df.v) = Len(ValidUpTo(Len(questions_data)))

\* a run whose valid tasks all raised, with at least one of them
C3_Witness ==
    /\ rpc = "returned"
    /\ raisedAt # {}
    /\ \A i \in 1..Len(questions_data) : ValidItem(questions_data[i]) => i \in raisedAt
    /\ results_df.t = "df"
    /\ Len(results_df.v) >= 1

\* C4: when fetching the questions fails, the run ends at once with a status
\* describing the fetch error and no result log, and no agent call and no
\* submit call is made.
C4_FetchFailureAborts ==
    (fetchResp # NoFetch /\ FetchFailed)
        => /\ rpc = "returned"
           /\ Len(final_status) > 1
           /\ final_status[1] = "Error while fetching questions: "
           /\ results_df = None
           /\ results_log = <<>>
           /\ dispatched = <<>>
           /\ apc = "idle"
           /\ submitCalls = 0

\* the endpoint answered with an empty list and the run was aborted
C4_Witness ==
    /\ fetchResp = [kind |-> "json_list", data |-> <<>>]
    /\ rpc = "returned"
    /\ results_df = None

\* C5: a malformed item causes no agent call, no log entry and no payload
\* entry, and every valid item the loop has met, before or after it, was
\* handed to the agent exactly once and has exactly one log entry.
C5_MalformedDropped ==
    rpc \in {"loop", "in_agent", "appended", "returned", "raised"} /\ fetchResp.kind = "json_list"
        => LET inFlight == rpc \in {"in_agent", "appended"}
               met == IF inFlight THEN idx ELSE Cardinality(Processed)
               logged == ValidUpTo(Cardinality(Processed))
           IN /\ dispatched = ValidUpTo(met)
              /\ Len(results_log) = Len(logged)
              /\ \A k \in 1..Len(logged) :
                    /\ results_log[k].TaskID = questions_data[logged[k]].task_id
                    /\ results_log[k].Question = questions_data[logged[k]].question
              /\ \A k \in 1..Len(answers_payload) :
                    \E i \in 1..met : /\ ValidItem(questions_data[i])
                                      /\ answers_payload[k].task_id = questions_data[i].task_id
              /\ Len(answers_payload) <= Len(ValidUpTo(met))

\* a malformed item between two valid ones, or next to one: all met
C5_Witness ==
    /\ rpc = "returned"
    /\ Len(questions_data) >= 2
    /\ \E i \in 1..Len(questions_data) : MalformedItem(questions_data[i])
    /\ \E i \in 1..Len(questions_data) : ValidItem(questions_data[i])
    /\ Len(dispatched) = Len(results_log)
    /\ Len(results_log) >= 1

\* the four classes of a failed submission, told from what the endpoint did
FailureClass(resp) ==
    IF resp.kind = "HTTPError" THEN "http"
    ELSE IF resp.kind \in {"ReadTimeout", "ConnectTimeout"} THEN "timeout"
    ELSE IF resp.kind \in {"ConnectionError", "JSONDecodeError"} THEN "network"
    ELSE "unexpected"

SubmitFailures == {r \in SubmitResponses : r.kind # "ok_object"}

\* the class a status string speaks of
StatusClass(st) ==
    IF st[1] = "Submission Failed: " /\ st[2] = "Server responded with status " THEN "http"
    ELSE IF st = <<"Submission Failed: ", "The request timed out.">> THEN "timeout"
    ELSE IF st[1] = "Submission Failed: " /\ st[2] = "Network error - " THEN "network"
    ELSE IF st[1] = "An unexpected error occurred during submission: " THEN "unexpected"
    ELSE "none"

\* C9: a failed submission gets the status of exactly one class (HTTP error
\* status, timeout, network error, unexpected error), the statuses of
\* different classes differ, an HTTP error status gives "Submission Failed"
\* with the status code, and a timeout gives the timed-out string and never
\* the network-error one.
C9_FailureClassification ==
    (rpc = "returned" /\ submitResp \in SubmitFailures)
        => /\ StatusClass(final_status) = FailureClass(submitResp)
           /\ \A other \in SubmitFailures :
                 FailureClass(other) # FailureClass(submitResp)
                    => SubmitStatus(other, profile.v) # final_status
           /\ submitResp.kind = "HTTPError"
                 => /\ final_status[1] = "Submission Failed: "
                    /\ final_status[3] = submitResp.code
           /\ FailureClass(submitResp) = "timeout"
                 => /\ final_status = <<"Submission Failed: ", "The request timed out.">>
                    /\ final_status[2] # "Network error - "

\* a connect timeout, which is also a ConnectionError, reported as a timeout
C9_Witness ==
    /\ rpc = "returned"
    /\ submitResp.kind = "ConnectTimeout"
    /\ final_status = <<"Submission Failed: ", "The request timed out.">>

-----------------------------------------------------------------------------
(* Claims about the detail of an HTTP error, checked under Spec *)

\* the characters of response.text that a status string carries
RawBodyChars(st) == Cardinality({i \in 1..Len(st) : st[i] = "c"})

\* C11: when submit fails with an HTTP error status, the status string
\* holds the status code and then either the structured detail field or,
\* when there is none, the raw response body cut to 500 characters; the raw
\* body is never embedded at more than 500 characters.
C11_HttpDetailBounded ==
    (rpc = "returned" /\ submitResp.kind = "HTTPError")
        => /\ Len(final_status) >= 5
           /\ final_status[3] = submitResp.code
           /\ submitResp.body = "json_detail"
                 => SubSeq(final_status, 5, Len(final_status)) = <<" Detail: ", "<detail>">>
           /\ submitResp.body # "json_detail"
                 => RawBodyChars(final_status) =
                        (IF submitResp.chars <= 500 THEN submitResp.chars ELSE 500)
           /\ RawBodyChars(final_status) <= 500

-----------------------------------------------------------------------------
(* Claims about the payload as a part of the log, checked under Spec *)

\* a is an initial part of b
IsPrefix(a, b) == Len(a) <= Len(b) /\ SubSeq(b, 1, Len(a)) = a

\* the valid positions the loop has left behind, in fetch order
Logged == ValidUpTo(Cardinality(Processed))

\* those of them whose agent call returned
Answered == SelectSeq(Logged, LAMBDA i : i \notin raisedAt)

\* the place in the log of the entry of the valid position i
LogPlace(i) == Cardinality({j \in 1..i : ValidItem(questions_data[j])})

\* between iterations and at the end of the loop: the log lists the valid
\* tasks met, in fetch order; the payload lists those whose agent call
\* returned, in the same order, with the task id and answer of the log
\* entry; a task whose call raised has the error marker in the log
PayloadIsErrorFreeLog ==
    (rpc \in {"loop", "in_agent", "returned", "raised"} /\ fetchResp.kind = "json_list")
        => /\ Len(results_log) = Len(Logged)
           /\ \A k \in 1..Len(Logged) :
                 /\ results_log[k].TaskID = questions_data[Logged[k]].task_id
                 /\ results_log[k].Question = questions_data[Logged[k]].question
                 /\ Logged[k] \in raisedAt
                       => /\ Len(results_log[k].SubmittedAnswer) = 2
                          /\ results_log[k].SubmittedAnswer[1] = "AGENT ERROR: "
           /\ Len(answers_payload) = Len(Answered)
           /\ \A k \in 1..Len(Answered) :
                 /\ answers_payload[k].task_id = results_log[LogPlace(Answered[k])].TaskID
                 /\ answers_payload[k].task_id = questions_data[Answered[k]].task_id
                 /\ answers_payload[k].submitted_answer =
                        results_log[LogPlace(Answered[k])].SubmittedAnswer

\* C12: the payload is the error-free subsequence of the log.  After any
\* prefix of the loop the log holds the valid tasks met in fetch order, the
\* payload holds exactly the entries whose agent call did not raise, in the
\* same order and with the same task id and answer, a raised task has the
\* "AGENT ERROR: <message>" entry in the log and none in the payload; and
\* every step only appends to the two sequences.
C12_PayloadSubsequence ==
    /\ []PayloadIsErrorFreeLog
    /\ [][/\ IsPrefix(results_log, results_log')
          /\ IsPrefix(answers_payload, answers_payload')]_vars

\* the loop has ended over a task that raised and a task that was answered
C12_Witness ==
    /\ rpc = "returned"
    /\ raisedAt # {}
    /\ answers_payload # <<>>
    /\ Len(results_log) = Len(answers_payload) + Cardinality(raisedAt)

====
